---- MODULE Spec2Model ----
(***************************************************************************)
(* Power sequencer of the-boom-power: the millisecond clock fed by the     *)
(* timer interrupt (millis.rs), the debounce filter (debounce.rs) and the  *)
(* power state machine of main() (main.rs).                                *)
(*                                                                         *)
(* Pin levels are the strings "High" and "Low" (embedded_hal PinState).    *)
(* An Option<T> is a sequence of length at most one: << >> is None and     *)
(* <<v>> is Some(v).                                                       *)
(***************************************************************************)
EXTENDS Integers, Sequences, FiniteSets, TLC

\* ------------------------------------------------------------------ bounds

\* The clock is not advanced past this many milliseconds.
MaxClock == 6400

\* Interrupts taken during one iteration of the main loop.
MaxIrqPerIter == 1

\* While no deadline is armed anywhere the clock is advanced only below this
\* many milliseconds: nothing reads it then.
MaxIdleClock == 0

\* Level changes seen on the two inputs (switch and acknowledge) over a run.
MaxFlips == 3

\* The clock is not advanced past this many milliseconds while a filter is
\* exercised on its own.
MaxDebounceClock == 400

\* The clock is not advanced past this many milliseconds while now() is
\* exercised on its own.
MaxReadClock == 320

\* The clock is not advanced past this many milliseconds while a Timer is
\* exercised on its own.
MaxTimerClock == 1200

\* ------------------------------------------------------- program constants

PRESCALER == 1024
TIMER_COUNTS == 125
CPU_CYCLES_PER_MS == 16000
MILLIS_INCREMENT == (PRESCALER * TIMER_COUNTS) \div CPU_CYCLES_PER_MS

POWER_SETTLE_DELAY == 100
DEFAULT_SETTLE_DELAY == 10
ENABLE_SUBWOOFERS_SECONDS == 5
\* A mixer delay as short as the switch's settle delay.
DISABLE_MIXER_MILLIS_settle == POWER_SETTLE_DELAY
DISABLE_MIXER_MILLIS == 250
\* A retry deadline as short as the mixer delay.
RPI_SHUTDOWN_MILLIS_mixer == DISABLE_MIXER_MILLIS
RPI_SHUTDOWN_MILLIS == 500
\* A running mark equal to the clean value.
FLAG_RUNNING_clean == 1 - 1
FLAG_RUNNING == 1
\* An erased EEPROM cell of the AVR reads with all bits set.
FLAG_ERASED == 255

PinStates == {"High", "Low"}

\* Contents of the flag byte found at boot: clean, running, corrupted, erased.
BootBytes == {0, FLAG_RUNNING, 3, FLAG_ERASED}

VARIABLES
    now,                  \* MILLIS_COUNTER
    power_state,          \* [kind, timer]: the PowerState of main()
    power_signal,         \* Debounce of the power switch (d2)
    rpi_signal,           \* Debounce of the companion acknowledge line (d10)
    pin_power_signal,     \* level of d2 when last read
    pin_rpi_signal,       \* level of d10 when last read
    pin_rpi_state,        \* output d11
    pin_relay_mixer,      \* output d3, relay driven by Low
    pin_relay_subwoofers, \* output d4, relay driven by Low
    pin_rpi_power,        \* open drain output d8, companion supply on at Low
    pin_power_state,      \* TRUE while the PWM output d6 is enabled
    eeprom,               \* the byte at state_offset
    read_result,          \* what ep.read returned, while main() looks at it
    console,              \* the line the last iteration printed, if any
    pc,                   \* where main() is in its loop
    irqs,                 \* interrupts taken in the current iteration
    flips,                \* level changes seen on d2 and d10 so far
    power_diverged,       \* when d2 was first read off its stable level, if it is
    rpi_diverged,         \* when d10 was first read off its stable level, if it is
    reader,               \* the call of now() in progress, and what the last two returned
    probe                 \* a Timer of its own, and what has_elapsed() last answered

vars == <<now, power_state, power_signal, rpi_signal, pin_power_signal,
          pin_rpi_signal, pin_rpi_state, pin_relay_mixer, pin_relay_subwoofers,
          pin_rpi_power, pin_power_state, eeprom, read_result, console, pc, irqs,
          flips, power_diverged, rpi_diverged, reader, probe>>

outputs == <<pin_rpi_state, pin_relay_mixer, pin_relay_subwoofers,
             pin_rpi_power, pin_power_state>>

inputs == <<pin_power_signal, pin_rpi_signal, flips, power_diverged,
            rpi_diverged>>


\* ------------------------------------------------------------- millis.rs

\* One byte of the counter holds this many values.
BYTE == 256

\* No call of now() in progress, none made yet, interrupts enabled.
ReaderIdle ==
    [pc |-> "idle", masked |-> FALSE, low |-> 0, high |-> 0,
     last |-> << >>, prev |-> << >>]

\* milliseconds(ts) for ts = [unit, n]
milliseconds(ts) ==
    CASE ts.unit = "Milliseconds" -> ts.n
      [] ts.unit = "Seconds" -> ts.n * 1000
      [] ts.unit = "Minutes" -> ts.n * 60 * 1000
      [] ts.unit = "Hours" -> ts.n * 60 * 60 * 1000

Milliseconds(n) == [unit |-> "Milliseconds", n |-> n]
Seconds(n) == [unit |-> "Seconds", n |-> n]

\* Timer::new(timespan), called while the counter reads t
TimerNew(timespan, t) == [start |-> t, duration |-> milliseconds(timespan)]

\* A has_elapsed that compares the counter itself with the duration.
has_elapsed_since_boot(start, duration, t) == t >= duration

\* A has_elapsed that only asks whether the start has been reached.
has_elapsed_no_duration(start, duration, t) == t >= start

\* A has_elapsed that asks for more than the duration.
has_elapsed_strict(start, duration, t) == (t - start) > duration

\* has_elapsed(start, Duration::NoRef(duration)) while the counter reads t
has_elapsed(start, duration, t) == (t - start) >= duration

\* Timer::has_elapsed(&self)
TimerHasElapsed(timer, t) == has_elapsed(timer.start, timer.duration, t)

\* Timer::reset(&mut self), called while the counter reads t
TimerReset(timer, t) == [timer EXCEPT !.start = t]

\* No Timer exercised on its own.
ProbeIdle == [timer |-> << >>, answer |-> << >>]

\* ------------------------------------------------------------ debounce.rs

\* A new that reports the level found on the pin as an event.
DebounceNew_with_event(level, settle_delay) ==
    [settle_delay |-> IF settle_delay = << >> THEN 10 ELSE settle_delay[1],
     state |-> level,
     last_change |-> << >>,
     change |-> <<level>>]

\* Debounce::new(pin, settle_delay) with the pin reading `level`
DebounceNew(level, settle_delay) ==
    [settle_delay |-> IF settle_delay = << >> THEN DEFAULT_SETTLE_DELAY
                      ELSE settle_delay[1],
     state |-> level,
     last_change |-> << >>,
     change |-> << >>]

\* A tick that buffers the level it leaves instead of the level it settles on.
DebounceTick_old_level(d, current, t) ==
    IF current = d.state
    THEN [d EXCEPT !.last_change = << >>]
    ELSE IF d.last_change = << >>
         THEN [d EXCEPT !.last_change = <<TimerNew(Milliseconds(d.settle_delay), t)>>]
         ELSE IF TimerHasElapsed(d.last_change[1], t)
              THEN [d EXCEPT !.change = <<d.state>>,
                             !.state = current,
                             !.last_change = << >>]
              ELSE d

\* A tick that buffers the event of a settled change without taking the level
\* as the stable one.
DebounceTick_event_only(d, current, t) ==
    IF current = d.state
    THEN [d EXCEPT !.last_change = << >>]
    ELSE IF d.last_change = << >>
         THEN [d EXCEPT !.last_change = <<TimerNew(Milliseconds(d.settle_delay), t)>>]
         ELSE IF TimerHasElapsed(d.last_change[1], t)
              THEN [d EXCEPT !.change = <<current>>,
                             !.last_change = << >>]
              ELSE d

\* A tick that keeps the pending deadline when the pin is back at the stable
\* level.
DebounceTick_keeps_deadline(d, current, t) ==
    IF current = d.state
    THEN d
    ELSE IF d.last_change = << >>
         THEN [d EXCEPT !.last_change = <<TimerNew(Milliseconds(d.settle_delay), t)>>]
         ELSE IF TimerHasElapsed(d.last_change[1], t)
              THEN [d EXCEPT !.change = <<current>>,
                             !.state = current,
                             !.last_change = << >>]
              ELSE d

\* Debounce::tick(&mut self) with the pin reading `current`, counter at t
DebounceTick(d, current, t) ==
    IF current = d.state
    THEN [d EXCEPT !.last_change = << >>]
    ELSE IF d.last_change = << >>
         THEN [d EXCEPT !.last_change = <<TimerNew(Milliseconds(d.settle_delay), t)>>]
         ELSE IF TimerHasElapsed(d.last_change[1], t)
              THEN [d EXCEPT !.change = <<current>>,
                             !.state = current,
                             !.last_change = << >>]
              ELSE d

Other(level) == IF level = "High" THEN "Low" ELSE "High"

\* A state() that reports the level being settled on while a deadline is pending.
DebounceState_pending(d) == IF d.last_change # << >> THEN Other(d.state) ELSE d.state

\* A state() that reports the opposite level.
DebounceState_inverted(d) == Other(d.state)

\* Debounce::state(&self)
DebounceState(d) == d.state

\* Debounce::changed(&mut self)
DebounceChanged(d) == d.change

\* Debounce::clear(&mut self)
DebounceClear(d) == [d EXCEPT !.change = << >>]

\* ---------------------------------------------------------------- main.rs

Kinds == {"Off", "EnableSubwoofers", "On", "DisableMixer", "RpiShutdown",
          "PowerSignalLow"}

State(kind) == [kind |-> kind, timer |-> << >>]
TimedState(kind, timer) == [kind |-> kind, timer |-> <<timer>>]

\* An equality that compares the deadlines too.
StateEq_with_deadline(a, b) == a = b

\* impl PartialEq for PowerState
StateEq(a, b) == a.kind = b.kind

\* What `ep.read(state_offset, &mut state)` leaves: whether it succeeded, and
\* state[0], which stays 0 when it failed.
ReadResult(read_ok, byte) == [ok |-> read_ok, byte |-> IF read_ok THEN byte ELSE 0]

\* A boot check that looks at state[0] only.
BootState_ignores_error(result) ==
    IF result.byte > 0 THEN State("PowerSignalLow") ELSE State("Off")

\* main.rs 118, 133-136: Off, unless the read failed or state[0] > 0.
BootState(result) ==
    IF ~result.ok \/ result.byte > 0 THEN State("PowerSignalLow") ELSE State("Off")

\* main() down to the read of the flag: the counter reset, the filters seeded
\* from their pins, the outputs at rest, the flag byte as the last run left it.
Init ==
    /\ now = 0
    /\ pin_power_signal \in PinStates
    /\ pin_rpi_signal \in PinStates
    /\ power_signal = DebounceNew(pin_power_signal, <<POWER_SETTLE_DELAY>>)
    /\ rpi_signal = DebounceNew(pin_rpi_signal, << >>)
    /\ pin_rpi_state = "Low"
    /\ pin_relay_mixer = "High"
    /\ pin_relay_subwoofers = "High"
    /\ pin_rpi_power = "High"
    /\ pin_power_state = FALSE
    /\ power_state = State("Off")
    /\ eeprom \in BootBytes
    /\ read_result = << >>
    /\ console = << >>
    /\ pc = "read_flag"
    /\ irqs = 0
    /\ flips = 0
    /\ power_diverged = << >>
    /\ rpi_diverged = << >>
    /\ reader = ReaderIdle
    /\ probe = ProbeIdle

\* ep.read(state_offset, &mut state)
ReadFlag ==
    /\ pc = "read_flag"
    /\ \E read_ok \in BOOLEAN : read_result' = <<ReadResult(read_ok, eeprom)>>
    /\ pc' = "check_flag"
    /\ UNCHANGED <<now, power_state, power_signal, rpi_signal, eeprom, console, irqs>>
    /\ UNCHANGED outputs
    /\ UNCHANGED inputs
    /\ UNCHANGED reader
    /\ UNCHANGED probe

\* if ep.read(..).is_err() || state[0] > 0 { power_state = PowerSignalLow }
CheckFlag ==
    /\ pc = "check_flag"
    /\ power_state' = BootState(read_result[1])
    /\ read_result' = << >>
    /\ pc' = "loop"
    /\ UNCHANGED <<now, power_signal, rpi_signal, eeprom, console, irqs>>
    /\ UNCHANGED outputs
    /\ UNCHANGED inputs
    /\ UNCHANGED reader
    /\ UNCHANGED probe

\* A deadline is armed somewhere: the clock is being waited on.
TimerArmed ==
    \/ power_state.timer # << >>
    \/ power_signal.last_change # << >>
    \/ rpi_signal.last_change # << >>

\* TIMER0_COMPA
Interrupt ==
    /\ pc \in {"loop", "new_timer", "enable_rail", "assert_signals"}
    /\ now + MILLIS_INCREMENT <= MaxClock
    /\ irqs < MaxIrqPerIter
    /\ TimerArmed \/ now < MaxIdleClock
    /\ now' = now + MILLIS_INCREMENT
    /\ irqs' = irqs + 1
    /\ UNCHANGED <<power_state, power_signal, rpi_signal, eeprom, read_result,
                   console, pc>>
    /\ UNCHANGED outputs
    /\ UNCHANGED inputs
    /\ UNCHANGED reader
    /\ UNCHANGED probe

\* Level changes between the levels last read and the levels read now.
Flips(power_pin, rpi_pin) ==
    (IF power_pin # pin_power_signal THEN 1 ELSE 0)
        + (IF rpi_pin # pin_rpi_signal THEN 1 ELSE 0)

\* power_signal after power_signal.tick() has read `pin`
PowerTick(pin) == DebounceTick(power_signal, pin, now)

\* rpi_signal after rpi_signal.tick() has read `pin`
RpiTick(pin) == DebounceTick(rpi_signal, pin, now)

\* History of an input: the time of the first of the reads in a row that differ
\* from the filter's stable level, << >> when the last read agrees with it.
Diverged(since, ticked, pin) ==
    IF pin = ticked.state THEN << >>
    ELSE IF since = << >> THEN <<now>> ELSE since

\* main.rs 144-145: the levels the two ticks read on their pins
Sample(power_pin, rpi_pin) ==
    /\ flips + Flips(power_pin, rpi_pin) <= MaxFlips
    /\ flips' = flips + Flips(power_pin, rpi_pin)
    /\ pin_power_signal' = power_pin
    /\ pin_rpi_signal' = rpi_pin
    /\ power_diverged' = Diverged(power_diverged, PowerTick(power_pin), power_pin)
    /\ rpi_diverged' = Diverged(rpi_diverged, RpiTick(rpi_pin), rpi_pin)

\* println!("[{}] State change from {:?} to {:?}.") when prev_state != power_state
LogLine(prev, next) ==
    IF ~StateEq(prev, next) THEN <<[from |-> prev.kind, to |-> next.kind]>> ELSE << >>

\* The end of the loop body: the log line, and round again.
EndIteration ==
    /\ console' = LogLine(power_state, power_state')
    /\ pc' = "loop"
    /\ irqs' = 0

\* A power-on arm that leaves the flag byte as it is.
WriteFlag_skipped == eeprom' = eeprom

\* ep.write_byte(state_offset, 1)
WriteFlag == eeprom' = FLAG_RUNNING

\* Off, switch event Low: power on. The guard, power_signal.clear() and the
\* write of the flag; the arm goes on in EnableRail and AssertSignals.
OffToEnableSubwoofers ==
    /\ pc = "loop"
    /\ power_state.kind = "Off"
    /\ \E power_pin \in PinStates, rpi_pin \in PinStates :
        /\ Sample(power_pin, rpi_pin)
        /\ DebounceChanged(PowerTick(power_pin)) = <<"Low">>
        /\ power_signal' = DebounceClear(PowerTick(power_pin))
        /\ rpi_signal' = RpiTick(rpi_pin)
    /\ WriteFlag
    /\ pc' = "enable_rail"
    /\ UNCHANGED <<now, power_state, read_result, console, irqs>>
    /\ UNCHANGED outputs
    /\ UNCHANGED reader
    /\ UNCHANGED probe

\* The power-on arm: pin_power_state.enable()
EnableRail ==
    /\ pc = "enable_rail"
    /\ pin_power_state' = TRUE
    /\ pc' = "assert_signals"
    /\ UNCHANGED <<now, power_state, power_signal, rpi_signal, eeprom,
                   read_result, console, irqs, pin_rpi_state, pin_relay_mixer,
                   pin_relay_subwoofers, pin_rpi_power>>
    /\ UNCHANGED inputs
    /\ UNCHANGED reader
    /\ UNCHANGED probe

\* The power-on arm: the mixer relay, d11 and the companion supply, and the
\* value of the arm, EnableSubwoofers(Timer::new(TimeSpan::Seconds(5))).
AssertSignals ==
    /\ pc = "assert_signals"
    /\ pin_relay_mixer' = "Low"
    /\ pin_rpi_state' = "High"
    /\ pin_rpi_power' = "Low"
    /\ power_state' = TimedState("EnableSubwoofers",
                                 TimerNew(Seconds(ENABLE_SUBWOOFERS_SECONDS), now))
    /\ EndIteration
    /\ UNCHANGED <<now, power_signal, rpi_signal, eeprom, read_result,
                   pin_relay_subwoofers, pin_power_state>>
    /\ UNCHANGED inputs
    /\ UNCHANGED reader
    /\ UNCHANGED probe

\* An EnableSubwoofers arm that clears the switch event.
EnableSubwoofersToOn_clears_event ==
    /\ pc = "loop"
    /\ power_state.kind = "EnableSubwoofers"
    /\ TimerHasElapsed(power_state.timer[1], now)
    /\ \E power_pin \in PinStates, rpi_pin \in PinStates :
        /\ Sample(power_pin, rpi_pin)
        /\ power_signal' = DebounceClear(PowerTick(power_pin))
        /\ rpi_signal' = RpiTick(rpi_pin)
    /\ pin_relay_subwoofers' = "Low"
    /\ power_state' = State("On")
    /\ EndIteration
    /\ UNCHANGED <<now, eeprom, read_result, pin_rpi_state, pin_relay_mixer,
                   pin_rpi_power, pin_power_state, reader, probe>>

\* EnableSubwoofers, deadline elapsed.
EnableSubwoofersToOn ==
    /\ pc = "loop"
    /\ power_state.kind = "EnableSubwoofers"
    /\ TimerHasElapsed(power_state.timer[1], now)
    /\ \E power_pin \in PinStates, rpi_pin \in PinStates :
        /\ Sample(power_pin, rpi_pin)
        /\ power_signal' = PowerTick(power_pin)
        /\ rpi_signal' = RpiTick(rpi_pin)
    /\ pin_relay_subwoofers' = "Low"
    /\ power_state' = State("On")
    /\ EndIteration
    /\ UNCHANGED <<now, eeprom, read_result, pin_rpi_state, pin_relay_mixer,
                   pin_rpi_power, pin_power_state>>
    /\ UNCHANGED reader
    /\ UNCHANGED probe

\* On, switch event High: power off.
OnToDisableMixer ==
    /\ pc = "loop"
    /\ power_state.kind = "On"
    /\ \E power_pin \in PinStates, rpi_pin \in PinStates :
        /\ Sample(power_pin, rpi_pin)
        /\ DebounceChanged(PowerTick(power_pin)) = <<"High">>
        /\ power_signal' = DebounceClear(PowerTick(power_pin))
        /\ rpi_signal' = RpiTick(rpi_pin)
    /\ pin_relay_subwoofers' = "High"
    /\ pin_rpi_state' = "Low"
    /\ power_state' = TimedState("DisableMixer",
                                 TimerNew(Milliseconds(DISABLE_MIXER_MILLIS), now))
    /\ EndIteration
    /\ UNCHANGED <<now, eeprom, read_result, pin_relay_mixer, pin_rpi_power,
                   pin_power_state>>
    /\ UNCHANGED reader
    /\ UNCHANGED probe

\* A DisableMixer arm that leaves the mixer relay driven.
DisableMixerElapsed_keeps_relay ==
    /\ pc = "loop"
    /\ power_state.kind = "DisableMixer"
    /\ TimerHasElapsed(power_state.timer[1], now)
    /\ \E power_pin \in PinStates, rpi_pin \in PinStates :
        /\ Sample(power_pin, rpi_pin)
        /\ power_signal' = PowerTick(power_pin)
        /\ rpi_signal' = RpiTick(rpi_pin)
    /\ pc' = "new_timer"
    /\ UNCHANGED <<now, power_state, eeprom, read_result, console, irqs, reader,
                   probe>>
    /\ UNCHANGED outputs

\* DisableMixer, deadline elapsed: the guard and the relay. The value of the
\* arm is built by NewShutdownTimer.
DisableMixerElapsed ==
    /\ pc = "loop"
    /\ power_state.kind = "DisableMixer"
    /\ TimerHasElapsed(power_state.timer[1], now)
    /\ \E power_pin \in PinStates, rpi_pin \in PinStates :
        /\ Sample(power_pin, rpi_pin)
        /\ power_signal' = PowerTick(power_pin)
        /\ rpi_signal' = RpiTick(rpi_pin)
    /\ pin_relay_mixer' = "High"
    /\ pc' = "new_timer"
    /\ UNCHANGED <<now, power_state, eeprom, read_result, console, irqs,
                   pin_rpi_state, pin_relay_subwoofers, pin_rpi_power,
                   pin_power_state>>
    /\ UNCHANGED reader
    /\ UNCHANGED probe

\* RpiShutdown, deadline elapsed: the guard and the toggle. The value of the
\* arm is built by NewShutdownTimer.
RpiShutdownRetry ==
    /\ pc = "loop"
    /\ power_state.kind = "RpiShutdown"
    /\ TimerHasElapsed(power_state.timer[1], now)
    /\ \E power_pin \in PinStates, rpi_pin \in PinStates :
        /\ Sample(power_pin, rpi_pin)
        /\ power_signal' = PowerTick(power_pin)
        /\ rpi_signal' = RpiTick(rpi_pin)
    /\ pin_rpi_state' = Other(pin_rpi_state)
    /\ pc' = "new_timer"
    /\ UNCHANGED <<now, power_state, eeprom, read_result, console, irqs,
                   pin_relay_mixer, pin_relay_subwoofers, pin_rpi_power,
                   pin_power_state>>
    /\ UNCHANGED reader
    /\ UNCHANGED probe

\* PowerState::RpiShutdown(Timer::new(TimeSpan::Milliseconds(500))), the value
\* of both arms above, assigned to power_state.
NewShutdownTimer ==
    /\ pc = "new_timer"
    /\ power_state' = TimedState("RpiShutdown",
                                 TimerNew(Milliseconds(RPI_SHUTDOWN_MILLIS), now))
    /\ EndIteration
    /\ UNCHANGED <<now, power_signal, rpi_signal, eeprom, read_result>>
    /\ UNCHANGED outputs
    /\ UNCHANGED inputs
    /\ UNCHANGED reader
    /\ UNCHANGED probe

\* A match that tries the arms of RpiShutdown in no order.
SecondArmReached_always(timer) == TRUE

\* The arms of a state are tried in order: the second arm of RpiShutdown is
\* reached only when the guard of the first, timer.has_elapsed(), is false.
SecondArmReached(timer) == ~TimerHasElapsed(timer, now)

\* RpiShutdown, deadline not elapsed, acknowledge line settled High.
RpiShutdownToOff ==
    /\ pc = "loop"
    /\ power_state.kind = "RpiShutdown"
    /\ SecondArmReached(power_state.timer[1])
    /\ \E power_pin \in PinStates, rpi_pin \in PinStates :
        /\ Sample(power_pin, rpi_pin)
        /\ DebounceState(RpiTick(rpi_pin)) = "High"
        /\ power_signal' = PowerTick(power_pin)
        /\ rpi_signal' = DebounceClear(RpiTick(rpi_pin))
    /\ pin_rpi_power' = "High"
    /\ eeprom' = FLAG_ERASED
    /\ pin_power_state' = FALSE
    /\ power_state' = State("Off")
    /\ EndIteration
    /\ UNCHANGED <<now, read_result, pin_rpi_state, pin_relay_mixer,
                   pin_relay_subwoofers>>
    /\ UNCHANGED reader
    /\ UNCHANGED probe

\* PowerSignalLow, switch settled High: clean up after abrupt power loss.
PowerSignalLowToOff ==
    /\ pc = "loop"
    /\ power_state.kind = "PowerSignalLow"
    /\ \E power_pin \in PinStates, rpi_pin \in PinStates :
        /\ Sample(power_pin, rpi_pin)
        /\ DebounceState(PowerTick(power_pin)) = "High"
        /\ power_signal' = PowerTick(power_pin)
        /\ rpi_signal' = RpiTick(rpi_pin)
    /\ eeprom' = FLAG_ERASED
    /\ pin_power_state' = FALSE
    /\ power_state' = State("Off")
    /\ EndIteration
    /\ UNCHANGED <<now, read_result, pin_rpi_state, pin_relay_mixer,
                   pin_relay_subwoofers, pin_rpi_power>>
    /\ UNCHANGED reader
    /\ UNCHANGED probe

\* The guard of the arm that leaves power_state as it is, the filters ticked.
StayGuard(power, rpi) ==
    CASE power_state.kind = "Off" -> DebounceChanged(power) # <<"Low">>
      [] power_state.kind = "EnableSubwoofers" ->
             ~TimerHasElapsed(power_state.timer[1], now)
      [] power_state.kind = "On" -> DebounceChanged(power) # <<"High">>
      [] power_state.kind = "DisableMixer" ->
             ~TimerHasElapsed(power_state.timer[1], now)
      [] power_state.kind = "RpiShutdown" ->
             /\ ~TimerHasElapsed(power_state.timer[1], now)
             /\ DebounceState(rpi) # "High"
      [] power_state.kind = "PowerSignalLow" -> DebounceState(power) # "High"

\* The arms `=> { power_state }`.
Stay ==
    /\ pc = "loop"
    /\ \E power_pin \in PinStates, rpi_pin \in PinStates :
        /\ Sample(power_pin, rpi_pin)
        /\ StayGuard(PowerTick(power_pin), RpiTick(rpi_pin))
        /\ power_signal' = PowerTick(power_pin)
        /\ rpi_signal' = RpiTick(rpi_pin)
    /\ power_state' = power_state
    /\ EndIteration
    /\ UNCHANGED <<now, eeprom, read_result>>
    /\ UNCHANGED outputs
    /\ UNCHANGED reader
    /\ UNCHANGED probe

Next ==
    \/ ReadFlag
    \/ CheckFlag
    \/ Interrupt
    \/ OffToEnableSubwoofers
    \/ EnableRail
    \/ AssertSignals
    \/ EnableSubwoofersToOn
    \/ OnToDisableMixer
    \/ DisableMixerElapsed
    \/ RpiShutdownRetry
    \/ NewShutdownTimer
    \/ RpiShutdownToOff
    \/ PowerSignalLowToOff
    \/ Stay

Spec == Init /\ [][Next]_vars

\* One iteration of the loop of main(), whichever arm it takes.
Loop ==
    \/ OffToEnableSubwoofers
    \/ EnableRail
    \/ AssertSignals
    \/ EnableSubwoofersToOn
    \/ OnToDisableMixer
    \/ DisableMixerElapsed
    \/ RpiShutdownRetry
    \/ NewShutdownTimer
    \/ RpiShutdownToOff
    \/ PowerSignalLowToOff
    \/ Stay

\* main() never returns and the timer keeps interrupting: the boot steps and
\* the loop are taken whenever they can be, and so is the interrupt.
LiveSpec ==
    /\ Init
    /\ [][Next]_vars
    /\ WF_vars(ReadFlag \/ CheckFlag)
    /\ WF_vars(Loop)
    /\ WF_vars(Interrupt)

\* ------------------------------------------------ a filter on its own

\* settle_delay arguments given to Debounce::new
SettleDelays == {<< >>, <<24>>, <<POWER_SETTLE_DELAY>>}

\* A Debounce built on a pin at either level with any of the settle delays; the
\* rest of the program stays as main() sets it up.
DebounceInit ==
    /\ now = 0
    /\ pin_power_signal \in PinStates
    /\ pin_rpi_signal \in PinStates
    /\ \E settle_delay \in SettleDelays :
           power_signal = DebounceNew(pin_power_signal, settle_delay)
    /\ rpi_signal = DebounceNew(pin_rpi_signal, << >>)
    /\ pin_rpi_state = "Low"
    /\ pin_relay_mixer = "High"
    /\ pin_relay_subwoofers = "High"
    /\ pin_rpi_power = "High"
    /\ pin_power_state = FALSE
    /\ power_state = State("Off")
    /\ eeprom = 0
    /\ read_result = << >>
    /\ console = << >>
    /\ pc = "tick"
    /\ irqs = 0
    /\ flips = 0
    /\ power_diverged = << >>
    /\ rpi_diverged = << >>
    /\ reader = ReaderIdle
    /\ probe = ProbeIdle

\* TIMER0_COMPA between two calls of tick
DebounceInterrupt ==
    /\ now + MILLIS_INCREMENT <= MaxDebounceClock
    /\ irqs < MaxIrqPerIter
    /\ now' = now + MILLIS_INCREMENT
    /\ irqs' = irqs + 1
    /\ UNCHANGED <<power_state, power_signal, rpi_signal, eeprom, read_result,
                   console, pc>>
    /\ UNCHANGED outputs
    /\ UNCHANGED inputs
    /\ UNCHANGED reader
    /\ UNCHANGED probe

\* tick() on any raw level. The level changes are counted up to MaxFlips.
DebouncePoll ==
    /\ pc = "tick"
    /\ \E pin \in PinStates :
        /\ pin_power_signal' = pin
        /\ flips' = IF pin # pin_power_signal /\ flips < MaxFlips
                    THEN flips + 1 ELSE flips
        /\ power_diverged' = Diverged(power_diverged, PowerTick(pin), pin)
        /\ power_signal' = PowerTick(pin)
    /\ pc' = "changed"
    /\ irqs' = 0
    /\ UNCHANGED <<now, power_state, rpi_signal, eeprom, read_result, console,
                   pin_rpi_signal, rpi_diverged>>
    /\ UNCHANGED outputs
    /\ UNCHANGED reader
    /\ UNCHANGED probe

\* changed(), and then either clear() on an event or nothing.
DebounceTake ==
    /\ pc = "changed"
    /\ \E take \in BOOLEAN :
           power_signal' = IF take /\ DebounceChanged(power_signal) # << >>
                           THEN DebounceClear(power_signal)
                           ELSE power_signal
    /\ pc' = "tick"
    /\ UNCHANGED <<now, power_state, rpi_signal, eeprom, read_result, console,
                   irqs>>
    /\ UNCHANGED outputs
    /\ UNCHANGED inputs
    /\ UNCHANGED reader
    /\ UNCHANGED probe

DebounceNext == DebounceInterrupt \/ DebouncePoll \/ DebounceTake

DebounceSpec == DebounceInit /\ [][DebounceNext]_vars

\* ------------------------------------------------- the clock on its own

\* What main() owns, untouched while only the clock is exercised.
program == <<power_state, power_signal, rpi_signal, eeprom, read_result,
             console, pc, irqs>>

\* A free() that leaves the interrupts enabled.
MaskInFree_open == FALSE

\* avr_device::interrupt::free: the closure runs with the interrupts disabled.
MaskInFree == TRUE

\* millis::init has reset the counter and the interrupts are enabled; main()
\* is about to call now().
ClockInit ==
    /\ now = 0
    /\ pin_power_signal = "High"
    /\ pin_rpi_signal = "Low"
    /\ power_signal = DebounceNew(pin_power_signal, <<POWER_SETTLE_DELAY>>)
    /\ rpi_signal = DebounceNew(pin_rpi_signal, << >>)
    /\ pin_rpi_state = "Low"
    /\ pin_relay_mixer = "High"
    /\ pin_relay_subwoofers = "High"
    /\ pin_rpi_power = "High"
    /\ pin_power_state = FALSE
    /\ power_state = State("Off")
    /\ eeprom = 0
    /\ read_result = << >>
    /\ console = << >>
    /\ pc = "loop"
    /\ irqs = 0
    /\ flips = 0
    /\ power_diverged = << >>
    /\ rpi_diverged = << >>
    /\ reader = ReaderIdle
    /\ probe = ProbeIdle

\* TIMER0_COMPA, taken only while the interrupts are enabled
ClockInterrupt ==
    /\ ~reader.masked
    /\ now + MILLIS_INCREMENT <= MaxReadClock
    /\ now' = now + MILLIS_INCREMENT
    /\ UNCHANGED <<program, outputs, inputs, reader, probe>>

\* now(): free(|cs| ..) entered
NowFree ==
    /\ reader.pc = "idle"
    /\ reader' = [reader EXCEPT !.pc = "low", !.masked = MaskInFree]
    /\ UNCHANGED <<now, program, outputs, inputs, probe>>

\* now(): the low byte of the counter loaded
NowGetLow ==
    /\ reader.pc = "low"
    /\ reader' = [reader EXCEPT !.pc = "high", !.low = now % BYTE]
    /\ UNCHANGED <<now, program, outputs, inputs, probe>>

\* now(): the bytes above it loaded
NowGetHigh ==
    /\ reader.pc = "high"
    /\ reader' = [reader EXCEPT !.pc = "exit", !.high = now \div BYTE]
    /\ UNCHANGED <<now, program, outputs, inputs, probe>>

\* now(): free left, the interrupts enabled again, the value returned
NowReturn ==
    /\ reader.pc = "exit"
    /\ reader' = [reader EXCEPT !.pc = "idle",
                                !.masked = FALSE,
                                !.prev = reader.last,
                                !.last = <<reader.high * BYTE + reader.low>>]
    /\ UNCHANGED <<now, program, outputs, inputs, probe>>

ClockNext == ClockInterrupt \/ NowFree \/ NowGetLow \/ NowGetHigh \/ NowReturn

ClockSpec == ClockInit /\ [][ClockNext]_vars

\* ------------------------------------------------- a Timer on its own

\* TimeSpan arguments given to Timer::new
TimeSpans == {Milliseconds(0), Milliseconds(24), Milliseconds(100), Seconds(1)}

\* A Timer built by Timer::new right after the counter was reset; the rest as
\* for the clock on its own.
TimerInit ==
    /\ now = 0
    /\ pin_power_signal = "High"
    /\ pin_rpi_signal = "Low"
    /\ power_signal = DebounceNew(pin_power_signal, <<POWER_SETTLE_DELAY>>)
    /\ rpi_signal = DebounceNew(pin_rpi_signal, << >>)
    /\ pin_rpi_state = "Low"
    /\ pin_relay_mixer = "High"
    /\ pin_relay_subwoofers = "High"
    /\ pin_rpi_power = "High"
    /\ pin_power_state = FALSE
    /\ power_state = State("Off")
    /\ eeprom = 0
    /\ read_result = << >>
    /\ console = << >>
    /\ pc = "loop"
    /\ irqs = 0
    /\ flips = 0
    /\ power_diverged = << >>
    /\ rpi_diverged = << >>
    /\ reader = ReaderIdle
    /\ \E timespan \in TimeSpans :
           probe = [timer |-> <<TimerNew(timespan, now)>>, answer |-> << >>]

\* TIMER0_COMPA between two calls on the Timer
TimerInterrupt ==
    /\ now + MILLIS_INCREMENT <= MaxTimerClock
    /\ now' = now + MILLIS_INCREMENT
    /\ UNCHANGED <<program, outputs, inputs, reader, probe>>

\* timer.has_elapsed()
TimerAsk ==
    /\ probe' = [probe EXCEPT !.answer = <<TimerHasElapsed(probe.timer[1], now)>>]
    /\ UNCHANGED <<now, program, outputs, inputs, reader>>

\* timer.reset()
TimerRearm ==
    /\ probe' = [timer |-> <<TimerReset(probe.timer[1], now)>>, answer |-> << >>]
    /\ UNCHANGED <<now, program, outputs, inputs, reader>>

TimerNext == TimerInterrupt \/ TimerAsk \/ TimerRearm

TimerSpec == TimerInit /\ [][TimerNext]_vars

\* ------------------------------------------------------------------ claims

Running == {"EnableSubwoofers", "On", "DisableMixer", "RpiShutdown"}

\* C1: the sequencer leaves EnableSubwoofers, and drives the subwoofer relay,
\* only in a step where the clock is at least 5000 ms past the value captured
\* on entry, and then it goes to On with the relay driven; in every step
\* taken earlier than that the state stays EnableSubwoofers with the same
\* captured value and the relay stays released. The value captured on entry is
\* the clock at the entry.
C1_OnOnlyAfterFiveSeconds ==
    [][/\ (power_state.kind # "EnableSubwoofers"
            /\ power_state'.kind = "EnableSubwoofers")
          => /\ power_state'.timer = <<[start |-> now, duration |-> 5000]>>
             /\ pin_relay_subwoofers' = "High"
       /\ power_state.kind = "EnableSubwoofers"
          => /\ pin_relay_subwoofers = "High"
             /\ (power_state'.kind # "EnableSubwoofers"
                   \/ pin_relay_subwoofers' # "High")
                => /\ now - power_state.timer[1].start >= 5000
                   /\ power_state'.kind = "On"
                   /\ pin_relay_subwoofers' = "Low"
             /\ now - power_state.timer[1].start < 5000
                => /\ power_state' = power_state
                   /\ pin_relay_subwoofers' = "High"
      ]_vars

\* The sequencer has just gone from EnableSubwoofers to On, relay driven.
C1_Witness ==
    /\ power_state.kind = "On"
    /\ console = <<[from |-> "EnableSubwoofers", to |-> "On"]>>
    /\ pin_relay_subwoofers = "Low"
    /\ now >= 5000

\* C2: the boot check leaves Off only if the read of the flag succeeded and the
\* byte is 0; a failed read or a nonzero byte gives PowerSignalLow.
C2_BootState ==
    [][pc = "check_flag"
       => power_state'.kind = IF read_result[1].ok /\ eeprom = 0
                              THEN "Off" ELSE "PowerSignalLow"]_vars

\* The loop is about to start in PowerSignalLow although the byte is 0: the
\* read failed.
C2_Witness ==
    /\ pc = "loop"
    /\ now = 0
    /\ flips = 0
    /\ console = << >>
    /\ power_state.kind = "PowerSignalLow"
    /\ eeprom = 0

\* C3: while the sequencer is in EnableSubwoofers, On, DisableMixer or
\* RpiShutdown the flag byte is nonzero, so the boot check on it gives
\* PowerSignalLow whether the read succeeds or fails.
C3_FlagSetWhileRunning ==
    power_state.kind \in Running
    => /\ eeprom # 0
       /\ \A read_ok \in BOOLEAN :
              BootState(ReadResult(read_ok, eeprom)) = State("PowerSignalLow")

\* The sequencer is in RpiShutdown after a retry, the flag still set.
C3_Witness ==
    /\ power_state.kind = "RpiShutdown"
    /\ pin_rpi_state = "High"
    /\ eeprom = FLAG_RUNNING

\* C4: at the end of every iteration that leaves the sequencer in Off the flag
\* byte is 0, and the boot check on a successful read of it gives Off.
C4_OffFlagReadsZero ==
    (pc = "loop" /\ power_state.kind = "Off")
    => /\ eeprom = 0
       /\ BootState(ReadResult(TRUE, eeprom)) = State("Off")

\* C5: the sequencer leaves PowerSignalLow only in a step after which the
\* switch filter's state is High, and then it goes to Off; after every step
\* in which that state is not High, a buffered Low event or not, it is still
\* in PowerSignalLow, no output has changed and the flag byte is as it was.
C5_PowerSignalLowWaitsForHigh ==
    [][power_state.kind = "PowerSignalLow"
       => /\ power_state'.kind # "PowerSignalLow"
             => /\ power_signal'.state = "High"
                /\ power_state'.kind = "Off"
          /\ power_signal'.state # "High"
             => /\ power_state' = power_state
                /\ UNCHANGED outputs
                /\ eeprom' = eeprom
          /\ UNCHANGED <<pin_rpi_state, pin_relay_mixer, pin_relay_subwoofers,
                         pin_rpi_power>>
      ]_vars

\* The sequencer has left PowerSignalLow for Off after the switch, found Low at
\* boot, was read High for the settle delay.
C5_Witness ==
    /\ console = <<[from |-> "PowerSignalLow", to |-> "Off"]>>
    /\ power_signal.change = <<"High">>
    /\ now >= POWER_SETTLE_DELAY

\* The step from RpiShutdown to Off.
ShutdownCompletes == power_state.kind = "RpiShutdown" /\ power_state'.kind = "Off"

\* The step from PowerSignalLow to Off.
RecoveryCompletes == power_state.kind = "PowerSignalLow" /\ power_state'.kind = "Off"

\* C6, as stated: the companion supply is released, the flag byte erased and
\* the rail output disabled by no step but the one from RpiShutdown to Off.
C6_OnlyShutdownErases ==
    [][(\/ pin_rpi_power = "Low" /\ pin_rpi_power' = "High"
        \/ eeprom # FLAG_ERASED /\ eeprom' = FLAG_ERASED
        \/ pin_power_state /\ ~pin_power_state')
       => ShutdownCompletes]_vars

\* C6, amended: the companion supply is released and the enabled rail output
\* disabled by no step but the one from RpiShutdown to Off; the flag byte is
\* erased by that step or by the one from PowerSignalLow to Off, and written
\* by no other step than the first of the arm from Off to EnableSubwoofers; the step from RpiShutdown to
\* Off is taken only with the acknowledge filter's state High after its tick,
\* and does all three; in EnableSubwoofers, On, DisableMixer and RpiShutdown
\* the companion supply is on.
C6_SupplyHeldUntilAcknowledged ==
    [][/\ (\/ pin_rpi_power = "Low" /\ pin_rpi_power' = "High"
           \/ pin_power_state /\ ~pin_power_state')
          => ShutdownCompletes
       /\ eeprom' # eeprom
          => \/ eeprom' = FLAG_ERASED /\ (ShutdownCompletes \/ RecoveryCompletes)
             \/ /\ eeprom' = FLAG_RUNNING
                /\ power_state.kind = "Off"
                /\ pc = "loop" /\ pc' = "enable_rail"
       /\ ShutdownCompletes
          => /\ rpi_signal'.state = "High"
             /\ pin_rpi_power' = "High"
             /\ eeprom' = FLAG_ERASED
             /\ ~pin_power_state'
       /\ power_state'.kind \in Running
          => pin_rpi_power' = "Low" /\ pin_power_state'
      ]_vars

\* The sequencer has just gone from RpiShutdown to Off: supply released, flag
\* erased, rail output disabled.
C6_Witness ==
    /\ console = <<[from |-> "RpiShutdown", to |-> "Off"]>>
    /\ pin_rpi_power = "High"
    /\ eeprom = FLAG_ERASED
    /\ ~pin_power_state

\* C7: in RpiShutdown, after every step in which the acknowledge filter's
\* state is not High the sequencer is still in RpiShutdown; d11 changes level
\* only in an iteration that finds the clock at least 500 ms past the start of
\* the deadline, and every such iteration toggles it and goes on to build a
\* new deadline; the deadline is replaced only there, by one of 500 ms that
\* starts at the clock value read then.
C7_RetryEvery500ms ==
    [][/\ (pc = "new_timer" /\ pc' = "loop")
          => power_state' = TimedState("RpiShutdown",
                                       [start |-> now, duration |-> 500])
       /\ power_state.kind = "RpiShutdown"
          => /\ rpi_signal'.state # "High" => power_state'.kind = "RpiShutdown"
             /\ pin_rpi_state' # pin_rpi_state
                => /\ pc = "loop"
                   /\ now - power_state.timer[1].start >= 500
                   /\ pc' = "new_timer"
             /\ (pc = "loop" /\ now' = now
                   /\ now - power_state.timer[1].start >= 500)
                => /\ pin_rpi_state' # pin_rpi_state
                   /\ pc' = "new_timer"
             /\ (pc = "loop" /\ power_state'.kind = "RpiShutdown")
                => power_state' = power_state
      ]_vars

\* The second retry: d11, Low on entry and High after the first toggle, has
\* been toggled back and the next deadline is about to be built.
C7_Witness ==
    /\ power_state.kind = "RpiShutdown"
    /\ pc = "new_timer"
    /\ pin_rpi_state = "Low"
    /\ rpi_signal.state = "Low"

\* C8: once the sequencer is in RpiShutdown with the acknowledge filter's state
\* High, it gets to Off with the flag byte erased, unless the filter's state
\* leaves High first.
C8_AcknowledgedShutdownCompletes ==
    (power_state.kind = "RpiShutdown" /\ rpi_signal.state = "High")
    ~> (\/ power_state.kind = "Off" /\ eeprom = FLAG_ERASED
        \/ rpi_signal.state # "High")

\* The sequencer has gone to Off on an acknowledge that came after a retry.
C8_Witness ==
    /\ console = <<[from |-> "RpiShutdown", to |-> "Off"]>>
    /\ rpi_signal.state = "High"
    /\ pin_rpi_state = "High"
    /\ eeprom = FLAG_ERASED

\* C9: the sequencer leaves On only in an iteration whose tick leaves a High
\* event of the switch, and every such iteration clears the event, releases
\* the subwoofer relay, sets d11 Low, leaves the mixer relay driven and enters
\* DisableMixer with a 250 ms deadline from the clock; the mixer relay is
\* released only in an iteration in DisableMixer that finds the clock at least
\* 250 ms past the start of that deadline, and that iteration ends in
\* RpiShutdown with a 500 ms deadline.
C9_MixerReleasedAfter250ms ==
    [][/\ (power_state.kind = "On" /\ pc = "loop" /\ now' = now)
          => (power_state'.kind # "On"
              <=> DebounceTick(power_signal, pin_power_signal', now).change
                      = <<"High">>)
       /\ (power_state.kind = "On" /\ power_state'.kind # "On")
          => /\ power_state' = TimedState("DisableMixer",
                                          [start |-> now, duration |-> 250])
             /\ power_signal'.change = << >>
             /\ pin_relay_subwoofers' = "High"
             /\ pin_rpi_state' = "Low"
             /\ pin_relay_mixer' = "Low"
       /\ (pin_relay_mixer = "Low" /\ pin_relay_mixer' = "High")
          => /\ power_state.kind = "DisableMixer"
             /\ now - power_state.timer[1].start >= 250
             /\ pc' = "new_timer"
       /\ power_state.kind = "DisableMixer"
          => /\ pc = "loop" => power_state' = power_state
             /\ pc = "new_timer" => pin_relay_mixer = "High"
             /\ (pc = "new_timer" /\ pc' = "loop")
                => power_state' = TimedState("RpiShutdown",
                                             [start |-> now, duration |-> 500])
      ]_vars

\* The sequencer has just gone from DisableMixer to RpiShutdown with the mixer
\* and subwoofer relays released and d11 Low.
C9_Witness ==
    /\ console = <<[from |-> "DisableMixer", to |-> "RpiShutdown"]>>
    /\ pin_relay_mixer = "High"
    /\ pin_relay_subwoofers = "High"
    /\ pin_rpi_state = "Low"

\* C10: a tick that reads the stable level drops the pending deadline and
\* leaves state and change as they were; state changes, or a new event is
\* buffered, only by a tick on a level that has been read off the stable level
\* since at least settle_delay ms before, without a read of the stable level
\* in between, and the new state and the event are that level.
C10_NoEventBeforeSettled ==
    [][/\ pin_power_signal' = power_signal.state
          => /\ power_signal'.state = power_signal.state
             /\ power_signal'.change \in {power_signal.change, << >>}
             /\ power_signal'.last_change = << >>
       /\ (\/ power_signal'.state # power_signal.state
           \/ power_signal'.change \notin {power_signal.change, << >>})
          => /\ power_diverged # << >>
             /\ now - power_diverged[1] >= power_signal.settle_delay
             /\ power_signal'.state = pin_power_signal'
             /\ power_signal'.state # power_signal.state
      ]_vars

\* A pin that left the stable level and came back to it before the settle
\* delay was over: two level changes, too early for the state to have changed
\* twice, and the pin is at the filter's state with no deadline pending and no
\* event buffered.
C10_Witness ==
    /\ flips = 2
    /\ now > 0
    /\ now < POWER_SETTLE_DELAY
    /\ power_signal.settle_delay = POWER_SETTLE_DELAY
    /\ power_signal.state = pin_power_signal
    /\ power_signal.last_change = << >>
    /\ power_signal.change = << >>
    /\ power_diverged = << >>

\* C11, as stated: a tick that reads a level kept off the stable level for at
\* least settle_delay ms buffers an event holding that level and makes it the
\* stable level, and a buffered event changes in no step but a clear().
C11_EventKeptUntilClear ==
    [][/\ (/\ pc = "tick" /\ pc' = "changed"
           /\ pin_power_signal' # power_signal.state
           /\ power_diverged # << >>
           /\ now - power_diverged[1] >= power_signal.settle_delay)
          => /\ power_signal'.change = <<pin_power_signal'>>
             /\ power_signal'.state = pin_power_signal'
       /\ (power_signal.change # << >>
             /\ power_signal'.change # power_signal.change)
          => pc = "changed" /\ power_signal'.change = << >>
      ]_vars

\* C11, amended: a tick that reads a level kept off the stable level for at
\* least settle_delay ms buffers an event holding that level, makes it the
\* stable level and drops the deadline, so the same divergence gives no second
\* event; a tick buffers an event in no other case; a buffered event changes
\* only by a clear(), which removes it, or by such a tick, which replaces it
\* with the event of the later change.
C11_SettledChangeBuffersEvent ==
    [][/\ (/\ pc = "tick" /\ pc' = "changed"
           /\ pin_power_signal' # power_signal.state
           /\ power_diverged # << >>
           /\ now - power_diverged[1] >= power_signal.settle_delay)
          => /\ power_signal'.change = <<pin_power_signal'>>
             /\ power_signal'.state = pin_power_signal'
             /\ power_signal'.last_change = << >>
             /\ power_diverged' = << >>
       /\ power_signal'.change # power_signal.change
          => \/ /\ pc = "changed"
                /\ power_signal.change # << >>
                /\ power_signal'.change = << >>
                /\ power_signal'.state = power_signal.state
             \/ /\ pc = "tick"
                /\ power_signal'.state # power_signal.state
                /\ power_signal'.change = <<power_signal'.state>>
       /\ (pc = "tick" /\ power_signal'.state # power_signal.state)
          => power_signal'.change = <<power_signal'.state>>
      ]_vars

\* An event was buffered and not cleared, and a later tick has read the pin off
\* the new stable level: changed() still gives the event.
C11_Witness ==
    /\ pc = "tick"
    /\ power_signal.settle_delay = POWER_SETTLE_DELAY
    /\ power_signal.change = <<power_signal.state>>
    /\ power_diverged # << >>
    /\ now - power_diverged[1] >= MILLIS_INCREMENT

\* C12: the counter changes only by a step of 8 ms, and never while a now()
\* is inside its critical section; what a now() returns is the counter at its
\* return, so a value the counter has held, and not less than what the now()
\* before it returned.
C12_NowAtomicAndMonotone ==
    [][/\ now' # now => now' = now + 8 /\ reader.pc = "idle"
       /\ (reader.pc = "exit" /\ reader'.pc = "idle")
          => /\ reader'.last = <<now>>
             /\ reader'.prev = reader.last
             /\ reader.last # << >> => reader.last[1] <= now
       /\ reader'.last # << >>
          => reader'.last[1] <= now' /\ reader'.last[1] % 8 = 0
      ]_vars

\* Two calls of now() with interrupts in between, the second after the low
\* byte of the counter has wrapped.
C12_Witness ==
    /\ reader.pc = "idle"
    /\ reader.prev # << >>
    /\ reader.prev[1] < BYTE
    /\ reader.last[1] >= BYTE
    /\ reader.last[1] = now

\* C13: has_elapsed() answers TRUE exactly when the counter is at least the
\* duration in ms past the Timer's start; while TRUE is the last answer since
\* the last reset() the counter is that far past the start, so every later
\* has_elapsed() answers TRUE as well; reset() sets start to the counter and
\* leaves the duration as Timer::new computed it.
C13_TimerElapsedMonotone ==
    [][/\ probe'.answer # << >>
          => /\ probe'.timer = probe.timer
             /\ probe'.answer[1]
                => now' - probe'.timer[1].start >= probe'.timer[1].duration
             /\ (now' = now /\ probe' # probe)
                => probe'.answer[1]
                   = (now - probe.timer[1].start >= probe.timer[1].duration)
             /\ probe.answer = <<TRUE>> => probe'.answer = <<TRUE>>
       /\ probe'.timer # probe.timer
          => /\ probe'.timer[1].start = now
             /\ probe'.timer[1].duration = probe.timer[1].duration
             /\ probe'.answer = << >>
       /\ probe'.timer[1].duration \in {0, 24, 100, 1000}
      ]_vars

\* A Timer of one second, reset after the clock had started, has just reached
\* its deadline and has_elapsed() has answered TRUE.
C13_Witness ==
    /\ probe.timer # << >>
    /\ probe.timer[1].duration = 1000
    /\ probe.timer[1].start > 0
    /\ now - probe.timer[1].start = 1000
    /\ probe.answer = <<TRUE>>

\* C14: in the arm from Off to EnableSubwoofers the flag byte is 1 at every
\* point after the write: when the write is done nothing is driven yet, the
\* rail output is enabled next with the relays and the companion lines still
\* at rest, and those are driven last; and at no point of any run is the rail
\* output enabled, a relay driven, the companion supply on or d11 High while
\* the flag byte is 0.
C14_FlagWrittenBeforeActuators ==
    /\ pc \in {"enable_rail", "assert_signals"}
       => /\ eeprom = 1
          /\ power_state.kind = "Off"
          /\ pin_power_state = (pc = "assert_signals")
          /\ pin_relay_mixer = "High"
          /\ pin_relay_subwoofers = "High"
          /\ pin_rpi_power = "High"
    /\ (\/ pin_power_state
        \/ pin_relay_mixer = "Low"
        \/ pin_relay_subwoofers = "Low"
        \/ pin_rpi_power = "Low"
        \/ pin_rpi_state = "High")
       => /\ eeprom # 0
          /\ BootState(ReadResult(TRUE, eeprom)) = State("PowerSignalLow")

\* In the middle of the first power-on of a run: the flag is written and the
\* rail output is enabled, the relays are not driven yet.
C14_Witness ==
    /\ pc = "assert_signals"
    /\ eeprom = FLAG_RUNNING
    /\ pin_power_state
    /\ pin_relay_mixer = "High"
    /\ flips <= 2
    /\ now <= POWER_SETTLE_DELAY + 2 * MILLIS_INCREMENT

\* C15: an iteration in RpiShutdown that finds the 500 ms deadline elapsed
\* while the acknowledge filter's state is High after its tick toggles d11,
\* keeps the companion supply on and the flag byte as it is, and goes on to
\* build a new deadline, still in RpiShutdown; the sequencer goes from
\* RpiShutdown to Off only in an iteration that finds the deadline not elapsed.
C15_RetryBeforeAcknowledge ==
    [][power_state.kind = "RpiShutdown"
       => /\ (/\ pc = "loop" /\ now' = now
              /\ now - power_state.timer[1].start >= 500
              /\ rpi_signal'.state = "High")
             => /\ pin_rpi_state' # pin_rpi_state
                /\ pc' = "new_timer"
                /\ power_state' = power_state
                /\ pin_rpi_power' = "Low"
                /\ eeprom' = eeprom
          /\ power_state'.kind = "Off"
             => /\ pc = "loop"
                /\ now - power_state.timer[1].start < 500
                /\ power_state.timer[1].duration = 500
      ]_vars

\* A retry taken although the acknowledge filter's state is High: d11 is
\* toggled and the new deadline is about to be built.
C15_Witness ==
    /\ power_state.kind = "RpiShutdown"
    /\ pc = "new_timer"
    /\ rpi_signal.state = "High"
    /\ pin_rpi_power = "Low"

\* The last step of an iteration of the loop.
IterationEnds ==
    /\ pc \in {"loop", "new_timer", "assert_signals"}
    /\ pc' = "loop"
    /\ now' = now

\* C16: an iteration prints a state change line exactly when it ends in a
\* state of another kind than it began in, and the line names the two kinds;
\* the steps inside an iteration print nothing and leave the state alone. A
\* retry in RpiShutdown, which ends in RpiShutdown with a new deadline, and an
\* arm that keeps the state print nothing.
C16_LogIffKindChanges ==
    [][/\ IterationEnds
          => console' = IF power_state'.kind # power_state.kind
                        THEN <<[from |-> power_state.kind,
                                to |-> power_state'.kind]>>
                        ELSE << >>
       /\ (pc \in {"loop", "new_timer", "enable_rail", "assert_signals"}
             /\ ~IterationEnds)
          => console' = console /\ power_state' = power_state
      ]_vars

\* A retry has just ended: RpiShutdown with a deadline that starts now, d11
\* toggled to High, and no line printed.
C16_Witness ==
    /\ pc = "loop"
    /\ power_state.kind = "RpiShutdown"
    /\ power_state.timer[1].start = now
    /\ pin_rpi_state = "High"
    /\ console = << >>

\* A buffered event holds the filter's state.
EventHoldsState(d) == d.change # << >> => d.change = <<d.state>>

\* C17: after every step an event buffered in either filter holds that filter's
\* state; the arm from Off to EnableSubwoofers is entered only with the switch
\* filter's state Low after the tick, and the sequencer goes from On to
\* DisableMixer only with it High.
C17_EventHoldsStableLevel ==
    [][/\ EventHoldsState(power_signal')
       /\ EventHoldsState(rpi_signal')
       /\ (power_state.kind = "Off" /\ pc = "loop" /\ pc' = "enable_rail")
          => power_signal'.state = "Low"
       /\ (power_state.kind = "On" /\ power_state'.kind = "DisableMixer")
          => power_signal'.state = "High"
      ]_vars

\* A High event of the switch buffered and not taken while the sequencer
\* waits in EnableSubwoofers, and the filter's state is High.
C17_Witness ==
    /\ power_state.kind = "EnableSubwoofers"
    /\ power_signal.change = <<"High">>
    /\ power_signal.state = "High"

\* C18: between iterations the subwoofer relay is driven only in On, the mixer
\* relay is driven exactly in EnableSubwoofers, On and DisableMixer, and the
\* rail output is enabled exactly in EnableSubwoofers, On, DisableMixer and
\* RpiShutdown; and in every state, inside an iteration too, a driven
\* subwoofer relay comes with a driven mixer relay and an enabled rail output.
C18_RelaysFollowState ==
    /\ pc = "loop"
       => /\ pin_relay_subwoofers = "Low" => power_state.kind = "On"
          /\ pin_relay_mixer = "Low"
             <=> power_state.kind \in {"EnableSubwoofers", "On", "DisableMixer"}
          /\ pin_power_state <=> power_state.kind \in Running
    /\ pin_relay_subwoofers = "Low"
       => pin_relay_mixer = "Low" /\ pin_power_state

\* Between two iterations in DisableMixer: the subwoofer relay is released, the
\* mixer relay is still driven and the rail output enabled.
C18_Witness ==
    /\ pc = "loop"
    /\ power_state.kind = "DisableMixer"
    /\ pin_relay_subwoofers = "High"
    /\ pin_relay_mixer = "Low"
    /\ pin_power_state

\* C19, as stated: between iterations, On with the switch filter's state High
\* comes with a buffered High event, and the iteration that follows goes to
\* DisableMixer.
C19_OnLeftWhenSwitchHigh ==
    [][/\ (pc' = "loop" /\ power_state'.kind = "On"
             /\ power_signal'.state = "High")
          => power_signal'.change = <<"High">>
       /\ (/\ pc = "loop" /\ now' = now
           /\ power_state.kind = "On"
           /\ power_signal.state = "High")
          => power_state'.kind = "DisableMixer"
      ]_vars

\* C19, amended: between iterations, On with the switch filter's state High
\* comes with a buffered High event; the iteration that follows goes to
\* DisableMixer if the filter's state is still High after its tick, and
\* otherwise that tick has settled the switch Low and the sequencer stays in
\* On; so no two iterations in a row end in On with the filter's state High.
C19_OnWithSwitchHighHasEvent ==
    [][/\ (pc' = "loop" /\ power_state'.kind = "On"
             /\ power_signal'.state = "High")
          => power_signal'.change = <<"High">>
       /\ (/\ pc = "loop" /\ now' = now
           /\ power_state.kind = "On"
           /\ power_signal.state = "High")
          => \/ /\ power_signal'.state = "High"
                /\ power_state'.kind = "DisableMixer"
             \/ /\ power_signal'.state = "Low"
                /\ power_signal'.change = <<"Low">>
                /\ power_state'.kind = "On"
       /\ (/\ pc = "loop" /\ now' = now
           /\ power_state.kind = "On"
           /\ power_signal'.state = "High")
          => power_state'.kind = "DisableMixer"
      ]_vars

\* The switch was put back to High while the sequencer waited in
\* EnableSubwoofers: the iteration that went to On has ended with the High
\* event still buffered.
C19_Witness ==
    /\ pc = "loop"
    /\ power_state.kind = "On"
    /\ console = <<[from |-> "EnableSubwoofers", to |-> "On"]>>
    /\ power_signal.state = "High"
    /\ power_signal.change = <<"High">>

\* C20: after a clean boot (flag byte 0, sequencer Off) the switch filter holds
\* the level read at construction and no event; while the sequencer has not
\* left Off, a filter state of Low is still that seeded level and carries no
\* event, every output keeps its boot level, and an iteration that starts with
\* the filter's state Low stays in Off; the iteration that leaves Off is one
\* whose tick takes the filter's state from High to Low.
C20_PowerOnNeedsSettledEngage ==
    [][/\ (pc \in {"read_flag", "check_flag"})
          => /\ power_signal.state = pin_power_signal
             /\ power_signal.change = << >>
       /\ (pc = "loop" /\ power_state.kind = "Off" /\ eeprom = 0)
          => /\ power_signal.state = "Low" => power_signal.change = << >>
             /\ outputs = <<"Low", "High", "High", "High", FALSE>>
             /\ power_signal.state = "Low" /\ now' = now
                => /\ pc' = "loop"
                   /\ power_state' = power_state
                   /\ outputs' = outputs
                   /\ eeprom' = eeprom
             /\ pc' = "enable_rail"
                => /\ power_signal.state = "High"
                   /\ power_signal'.state = "Low"
      ]_vars

\* Booted clean with the switch at Low and still Off: the switch has since
\* settled High (a filter seeded High would carry no event), and the flag byte
\* was never written.
C20_Witness ==
    /\ pc = "loop"
    /\ power_state.kind = "Off"
    /\ eeprom = 0
    /\ console = << >>
    /\ power_signal.state = "High"
    /\ power_signal.change = <<"High">>
    /\ pin_power_signal = "Low"
    /\ power_diverged # << >>

====
